---- MODULE Spec2Model ----
(***************************************************************************)
(* UserAuthDataService (src/application/service/user.auth.data.service.ts) *)
(* as a state machine.  Every invocation of a public operation is a        *)
(* process p; every await of the code is one step of p.  The repositories  *)
(* the service calls are its collaborators: each call is appended to the   *)
(* invocation's log and its reply is chosen among the replies the          *)
(* collaborator can give.                                                  *)
(***************************************************************************)
EXTENDS Integers, Sequences, FiniteSets, TLC

\* ---------------------------------------------------------------- bounds
\* Total number of invocations in one behaviour.
MaxCalls == 2

\* the invocation slots; under SpecConc both may be in flight at once
Procs == {1, 2}

\* ------------------------------------------------------------- constants
\* max attempts of the sync dispatched by addFitbitAuthData
InitSyncAttempts == 3
\* max attempts of the sync syncFitbitUserData returns
RequestSyncAttempts == 1
\* max attempts of the sync dispatched by syncLastFitbitUserData
RelaySyncAttempts == 1

NoVal == "undefined"
NoId == 0

UserIds == {"u1", "u2"}
\* an id ObjectIdValidator rejects
BadId == "not-an-object-id"

\* ------------------------------------------------------- scope strings
\* A scope string is a sequence of symbols: the scope words and the blank.
SP == " "
RWEI == "rwei"
RACT == "ract"
RSLE == "rsle"
RPRO == "rpro"

\* String.prototype.split(' '): the pieces between blanks, each a sequence
\* of symbols (two words written without a blank between them are one piece).
RECURSIVE SplitFrom(_, _, _)
SplitFrom(s, i, cur) ==
    IF i > Len(s) THEN <<cur>>
    ELSE IF s[i] = SP THEN <<cur>> \o SplitFrom(s, i + 1, <<>>)
    ELSE SplitFrom(s, i + 1, Append(cur, s[i]))

Split(s) == SplitFrom(s, 1, <<>>)

\* Array.prototype.includes
Includes(parts, word) == \E i \in 1..Len(parts) : parts[i] = <<word>>

\* the scope strings callers and the token payload carry
ScopeStrings ==
    { <<RPRO>>,
      <<RWEI>>, <<RACT>>, <<RSLE>>,
      <<RWEI, SP, RACT>>, <<RWEI, SP, RSLE>>, <<RACT, SP, RSLE>>,
      <<RWEI, SP, RACT, SP, RSLE>>,
      <<RSLE, SP, RPRO, SP, RACT, SP, RWEI>> }

ScopeAll == <<RWEI, SP, RACT, SP, RSLE>>

\* ------------------------------------------------------------- records
\* FitbitAuthData: the fields the service reads or writes.
FitbitAuthData(fuid, token, exp, scope, ttype, status, lastSync) ==
    [ user_id |-> fuid, access_token |-> token, expires_in |-> exp,
      scope |-> scope, token_type |-> ttype, status |-> status,
      last_sync |-> lastSync ]

\* UserAuthData
UserAuthData(id, uid, fitbit) == [ id |-> id, user_id |-> uid, fitbit |-> fitbit ]

\* DataSync: what a sync of a user resolves to
DataSync(uid, since) == [ user_id |-> uid, since |-> since ]
NoDataSync == DataSync(NoVal, NoVal)

\* a provider notification: the resource type and the date
Event(type, date) == [ type |-> type, date |-> date ]
NoEvent == Event(NoVal, NoVal)

NoFitbit == FitbitAuthData(NoVal, NoVal, 0, <<>>, NoVal, NoVal, NoVal)
NoItem == UserAuthData(NoId, NoVal, NoFitbit)

\* ------------------------------------------------------------- errors
MsgScope == "The token must have permission for at least one of the features that are synced by the API."
MsgNoUser == "The user does not have register on platform"
MsgBus == "Communication with the message bus cannot be performed."
MsgInvalid == "Required fields were not provided"
MsgInvalidId == "Some ID provided does not have a valid format"
MsgRpc == "rpc timed out"
MsgProvider == "request failed"
MsgNoFitbit == "Cannot read property 'access_token' of undefined"
MsgNoAuthData == "User does not have authentication data. Please, submit authentication data and try again."

Err(name, msg) == [ name |-> name, message |-> msg ]
NoErr == Err(NoVal, NoVal)

\* what a failing collaborator call can throw: an error whose message
\* names the rpc transport, and one whose message does not
CollabErrors == { Err("Error", MsgRpc), Err("Error", MsgProvider) }

\* err.message.indexOf('rpc') !== -1, over the messages of the model
ContainsRpc(msg) == msg = MsgRpc

\* -------------------------------------------------------- collaborators
\* CreateUserAuthDataValidator.validate: the required fields are there
ValidItem(item) ==
    /\ item.user_id \in UserIds
    /\ item.fitbit.access_token # NoVal

\* ObjectIdValidator.validate
ValidObjectId(id) == id \in UserIds

\* IFitbitDataRepository.getTokenPayload: what the access token decodes to.
\* A field the token does not carry is falsy (NoVal, the empty string, 0).
Payload(sub, scopes, exp) == [ sub |-> sub, scopes |-> scopes, exp |-> exp ]

Tokens == {"tok-full", "tok-bare", "tok-sub", "tok-wei"}

TokenPayload(token) ==
    CASE token = "tok-full" -> Payload("F1", ScopeAll, 3600)
      [] token = "tok-bare" -> Payload(NoVal, <<>>, 0)
      [] token = "tok-sub"  -> Payload("F2", <<>>, 0)
      [] OTHER              -> Payload(NoVal, <<RWEI>>, 3600)

\* IUserAuthDataRepository over the stored records, in insertion order.
Matching(st, uid) == { i \in 1..Len(st) : st[i].user_id = uid }

\* findOne({ user_id }): the first record of the user, if any
FindOne(st, uid) ==
    IF Matching(st, uid) = {} THEN NoItem
    ELSE st[CHOOSE i \in Matching(st, uid) : \A j \in Matching(st, uid) : i <= j]

\* findOne({ 'fitbit.user_id' }): the first record of the Fitbit user, if any
MatchingFitbit(st, fid) == { i \in 1..Len(st) : st[i].fitbit.user_id = fid }
FindOneByFitbitId(st, fid) ==
    IF MatchingFitbit(st, fid) = {} THEN NoItem
    ELSE st[CHOOSE i \in MatchingFitbit(st, fid) :
                \A j \in MatchingFitbit(st, fid) : i <= j]

\* create: the record is stored under a fresh identity
Created(st, rec) == [rec EXCEPT !.id = Len(st) + 1]
Create(st, rec) == Append(st, Created(st, rec))

\* update: the record with rec's identity takes rec's fields
Update(st, rec) == [i \in 1..Len(st) |-> IF st[i].id = rec.id THEN rec ELSE st[i]]

\* ------------------------------------------------- code of the service
\* mutant of ManageFitbitAuthData: the scopes of the payload are not taken
ManageKeepsScope(data, payload) ==
    [data EXCEPT
        !.fitbit.user_id    = IF payload.sub # NoVal THEN payload.sub ELSE @,
        !.fitbit.expires_in = IF payload.exp # 0 THEN payload.exp ELSE @,
        !.fitbit.token_type = "Bearer"]

\* manageFitbitAuthData, after the payload arrived
ManageFitbitAuthData(data, payload) ==
    [data EXCEPT
        !.fitbit.user_id    = IF payload.sub # NoVal THEN payload.sub ELSE @,
        !.fitbit.scope      = IF payload.scopes # <<>> THEN payload.scopes ELSE @,
        !.fitbit.expires_in = IF payload.exp # 0 THEN payload.exp ELSE @,
        !.fitbit.token_type = "Bearer"]

\* mutant of SetValid: the status is left as the caller gave it
SetValidSkipped(newItem) == newItem

\* add, line 30
SetValid(newItem) == [newItem EXCEPT !.fitbit.status = "valid_token"]

\* mutant of ScopeRejected: only a scope string without any word is refused
ScopeRejectedWhenEmpty(scopes) == \A i \in 1..Len(scopes) : scopes[i] = <<>>

\* subscribeFitbitEvents: the condition under which it throws
ScopeRejected(scopes) ==
    \/ ~Includes(scopes, RWEI)
    \/ ~Includes(scopes, RACT)
    \/ ~Includes(scopes, RSLE)

\* subscribeFitbitEvents: the three subscriptions, in the order of the code
SubStages == <<"subBody", "subActivities", "subSleep">>
\* mutant of SubWord: the sleep subscription looks for a misspelt scope word
SubWordMisspelt(stage) ==
    CASE stage = "subBody" -> RWEI
      [] stage = "subActivities" -> RACT
      [] OTHER -> "rsleep"
SubWord(stage) ==
    CASE stage = "subBody" -> RWEI
      [] stage = "subActivities" -> RACT
      [] OTHER -> RSLE
SubArgs(stage) ==
    CASE stage = "subBody" -> <<"body", "BODY">>
      [] stage = "subActivities" -> <<"activities", "ACTIVITIES">>
      [] OTHER -> <<"sleep", "SLEEP">>
\* mutant of AfterSub: the sleep subscription is made before the activities one
AfterSubSleepSecond(stage) ==
    CASE stage = "subBody" -> "subSleep"
      [] stage = "subSleep" -> "subActivities"
      [] OTHER -> "checkUser"

AfterSub(stage) ==
    CASE stage = "subBody" -> "subActivities"
      [] stage = "subActivities" -> "subSleep"
      [] OTHER -> "checkUser"

\* add, the catch block
AddCatch(err) ==
    IF ContainsRpc(err.message) THEN Err("EventBusException", MsgBus) ELSE err

\* ---------------------------------------------------------------- state
VARIABLES
    store,      \* the records of the user auth data repository, in insertion order
    calls,      \* invocations started so far
    firstId,    \* per user, the identity under which the user was first stored
    revoked,    \* the access tokens revoked at the provider
    pc,         \* per invocation, the await it is at
    op,         \* per invocation, the operation invoked
    input,      \* add, addFitbitAuthData: the item as the caller passed it
    initSync,   \* addFitbitAuthData: its second argument
    userId,     \* the id argument of the operations that take one
    event,      \* syncLastFitbitUserData: its type and date arguments
    item,       \* add: the item object (item and newItem are the same object)
    saved,      \* add: alreadySaved; revokeFitbitAccessToken: authData
    result,     \* addFitbitAuthData: result, what the inner add resolved to
    outcome,    \* what the caller's promise settled to
    log,        \* per invocation, the collaborator calls it made, in order
    bg          \* addFitbitAuthData: the sync promise nobody awaits

vars == << store, calls, firstId, revoked, pc, op, input, initSync, userId, event, item,
           saved, result, outcome, log, bg >>

Outcome(status, rec, flag, err, fitbit, sync) ==
    [ status |-> status, value |-> rec, flag |-> flag, err |-> err,
      fitbit |-> fitbit, sync |-> sync ]
NoOutcome == Outcome("none", NoItem, FALSE, NoErr, NoFitbit, NoDataSync)
Resolved(rec) == Outcome("resolved", rec, FALSE, NoErr, NoFitbit, NoDataSync)
ResolvedBool(b) == Outcome("resolved", NoItem, b, NoErr, NoFitbit, NoDataSync)
ResolvedFitbit(f) == Outcome("resolved", NoItem, FALSE, NoErr, f, NoDataSync)
ResolvedSync(d) == Outcome("resolved", NoItem, FALSE, NoErr, NoFitbit, d)
ResolvedVoid == Outcome("resolved", NoItem, FALSE, NoErr, NoFitbit, NoDataSync)
Rejected(err) == Outcome("rejected", NoItem, FALSE, err, NoFitbit, NoDataSync)

LogEntry(call, arg, reply) ==
    [ call |-> call, arg |-> arg, reply |-> reply, err |-> NoErr ]
\* a call that threw, and what it threw
LogThrow(call, arg, e) ==
    [ call |-> call, arg |-> arg, reply |-> "throws", err |-> e ]

\* the items callers pass to add and addFitbitAuthData
LastSyncs == {NoVal, "2019-10-01"}
InputItem(uid, token, scope, lastSync) ==
    UserAuthData(NoId, uid, FitbitAuthData("F0", token, 28800, scope, NoVal, NoVal, lastSync))
AddItems ==
    UNION { { InputItem(u, "tok-full", <<RPRO>>, ls), InputItem(u, "tok-sub", <<RWEI>>, ls),
              InputItem(u, "tok-wei", ScopeAll, ls) }
            \cup { InputItem(u, "tok-bare", sc, ls) : sc \in ScopeStrings }
            : u \in UserIds, ls \in LastSyncs }
    \cup { InputItem(BadId, "tok-full", ScopeAll, NoVal), InputItem("u1", NoVal, ScopeAll, NoVal) }
\* add takes no notice of last_sync: its callers pass items without one
PlainItems == { it \in AddItems : it.fitbit.last_sync = NoVal }
\* the items of concurrent invocations
ConcItems ==
    { InputItem(u, "tok-full", <<RPRO>>, NoVal) : u \in UserIds }
    \cup { InputItem(u, "tok-bare", ScopeAll, NoVal) : u \in UserIds }
\* the second argument: the words "true" and "false", or none given
InitSyncs == {"true", "false", NoVal}

Init ==
    /\ store = <<>>
    /\ calls = 0
    /\ firstId = [u \in UserIds |-> NoId]
    /\ revoked = {}
    /\ pc = [p \in Procs |-> "idle"]
    /\ op = [p \in Procs |-> NoVal]
    /\ input = [p \in Procs |-> NoItem]
    /\ initSync = [p \in Procs |-> NoVal]
    /\ userId = [p \in Procs |-> NoVal]
    /\ event = [p \in Procs |-> NoEvent]
    /\ item = [p \in Procs |-> NoItem]
    /\ saved = [p \in Procs |-> NoItem]
    /\ result = [p \in Procs |-> NoItem]
    /\ outcome = [p \in Procs |-> NoOutcome]
    /\ log = [p \in Procs |-> <<>>]
    /\ bg = [p \in Procs |-> "none"]

\* ------------------------------------------------------------ invocation
Invoke(p, o, it, sync, uid, ev, first) ==
    /\ pc[p] = "idle"
    /\ calls < MaxCalls
    /\ calls' = calls + 1
    /\ pc' = [pc EXCEPT ![p] = first]
    /\ op' = [op EXCEPT ![p] = o]
    /\ input' = [input EXCEPT ![p] = it]
    /\ item' = [item EXCEPT ![p] = it]
    /\ initSync' = [initSync EXCEPT ![p] = sync]
    /\ userId' = [userId EXCEPT ![p] = uid]
    /\ event' = [event EXCEPT ![p] = ev]
    /\ UNCHANGED << store, firstId, revoked, saved, result, outcome, log, bg >>

CallAdd(p, items) ==
    \E it \in items : Invoke(p, "add", it, NoVal, NoVal, NoEvent, "validate")

CallAddFitbitAuthData(p, items) ==
    \E it \in items, sync \in InitSyncs :
        Invoke(p, "addFitbitAuthData", it, sync, NoVal, NoEvent, "validate")

CallRevoke(p) ==
    \E uid \in UserIds \cup {BadId} :
        Invoke(p, "revokeFitbitAccessToken", NoItem, NoVal, uid, NoEvent, "revValidate")

\* the caller took the outcome: the slot is free for the next invocation
Return(p) ==
    /\ pc[p] = "done"
    /\ bg[p] # "running"
    /\ pc' = [pc EXCEPT ![p] = "idle"]
    /\ op' = [op EXCEPT ![p] = NoVal]
    /\ input' = [input EXCEPT ![p] = NoItem]
    /\ item' = [item EXCEPT ![p] = NoItem]
    /\ initSync' = [initSync EXCEPT ![p] = NoVal]
    /\ userId' = [userId EXCEPT ![p] = NoVal]
    /\ event' = [event EXCEPT ![p] = NoEvent]
    /\ saved' = [saved EXCEPT ![p] = NoItem]
    /\ result' = [result EXCEPT ![p] = NoItem]
    /\ outcome' = [outcome EXCEPT ![p] = NoOutcome]
    /\ log' = [log EXCEPT ![p] = <<>>]
    /\ bg' = [bg EXCEPT ![p] = "none"]
    /\ UNCHANGED << store, calls, revoked, firstId >>

InAdd(p) == op[p] \in {"add", "addFitbitAuthData"}

Logged(p, call, arg, reply) ==
    log' = [log EXCEPT ![p] = Append(@, LogEntry(call, arg, reply))]
LoggedThrow(p, call, arg, e) ==
    log' = [log EXCEPT ![p] = Append(@, LogThrow(call, arg, e))]

\* add rejects with what its catch block makes of err; addFitbitAuthData
\* rejects with the error of add unchanged (lines 80-82)
AddRejects(p, err) ==
    /\ pc' = [pc EXCEPT ![p] = "done"]
    /\ outcome' = [outcome EXCEPT ![p] = Rejected(AddCatch(err))]

\* add resolves: the caller of add has the record; addFitbitAuthData goes on
AddResolves(p, rec) ==
    IF op[p] = "add"
    THEN /\ pc' = [pc EXCEPT ![p] = "done"]
         /\ outcome' = [outcome EXCEPT ![p] = Resolved(rec)]
         /\ UNCHANGED result
    ELSE /\ pc' = [pc EXCEPT ![p] = "dispatch"]
         /\ result' = [result EXCEPT ![p] = rec]
         /\ UNCHANGED outcome

\* ------------------------------------------------------------------- add
\* line 28: CreateUserAuthDataValidator.validate(item)
AddValidate(p) ==
    /\ InAdd(p) /\ pc[p] = "validate"
    /\ IF ValidItem(item[p])
       THEN /\ pc' = [pc EXCEPT ![p] = "introspect"]
            /\ UNCHANGED outcome
       ELSE AddRejects(p, Err("ValidationException", MsgInvalid))
    /\ UNCHANGED << store, calls, revoked, firstId, op, input, initSync, userId, event, item,
                    saved, result, log, bg >>

\* lines 29-30: await manageFitbitAuthData(item), then the status
AddIntrospect(p) ==
    /\ InAdd(p) /\ pc[p] = "introspect"
    /\ \/ /\ Logged(p, "getTokenPayload", item[p].fitbit.access_token, "ok")
          /\ item' = [item EXCEPT ![p] =
                SetValid(ManageFitbitAuthData(@, TokenPayload(@.fitbit.access_token)))]
          /\ pc' = [pc EXCEPT ![p] = "scope"]
          /\ UNCHANGED outcome
       \/ \E e \in CollabErrors :
            /\ LoggedThrow(p, "getTokenPayload", item[p].fitbit.access_token, e)
            /\ AddRejects(p, e)
            /\ UNCHANGED item
    /\ UNCHANGED << store, calls, revoked, firstId, op, input, initSync, userId, event,
                    saved, result, bg >>

\* lines 139-145: subscribeFitbitEvents up to its first subscription
AddScopeCheck(p) ==
    /\ InAdd(p) /\ pc[p] = "scope"
    /\ IF ScopeRejected(Split(item[p].fitbit.scope))
       THEN AddRejects(p, Err("ValidationException", MsgScope))
       ELSE /\ pc' = [pc EXCEPT ![p] = "subBody"]
            /\ UNCHANGED outcome
    /\ UNCHANGED << store, calls, revoked, firstId, op, input, initSync, userId, event, item,
                    saved, result, log, bg >>

\* mutant of AddSubscribe: a failed subscription is passed over
AddSubscribeSwallows(p, stage) ==
    /\ InAdd(p) /\ pc[p] = stage
    /\ IF Includes(Split(item[p].fitbit.scope), SubWord(stage))
       THEN \E reply \in {"ok", "throws"} :
               Logged(p, "subscribeUserEvent", SubArgs(stage), reply)
       ELSE UNCHANGED log
    /\ pc' = [pc EXCEPT ![p] = AfterSub(stage)]
    /\ UNCHANGED << store, calls, revoked, firstId, op, input, initSync, userId, event, item,
                    saved, result, outcome, bg >>

\* lines 146-154: one of the three conditional subscriptions
AddSubscribe(p, stage) ==
    /\ InAdd(p) /\ pc[p] = stage
    /\ IF Includes(Split(item[p].fitbit.scope), SubWord(stage))
       THEN \/ /\ Logged(p, "subscribeUserEvent", SubArgs(stage), "ok")
               /\ pc' = [pc EXCEPT ![p] = AfterSub(stage)]
               /\ UNCHANGED outcome
            \/ \E e \in CollabErrors :
                 /\ LoggedThrow(p, "subscribeUserEvent", SubArgs(stage), e)
                 /\ AddRejects(p, e)
       ELSE /\ pc' = [pc EXCEPT ![p] = AfterSub(stage)]
            /\ UNCHANGED << outcome, log >>
    /\ UNCHANGED << store, calls, revoked, firstId, op, input, initSync, userId, event, item,
                    saved, result, bg >>

\* mutant of AddCheckUser: the reply of the directory is not looked at
AddCheckUserIgnored(p) ==
    /\ InAdd(p) /\ pc[p] = "checkUser"
    /\ \/ /\ \E reply \in {"true", "false"} :
                Logged(p, "checkUserExists", item[p].user_id, reply)
          /\ pc' = [pc EXCEPT ![p] = "findOne"]
          /\ UNCHANGED outcome
       \/ \E e \in CollabErrors :
            /\ LoggedThrow(p, "checkUserExists", item[p].user_id, e)
            /\ AddRejects(p, e)
    /\ UNCHANGED << store, calls, revoked, firstId, op, input, initSync, userId, event, item,
                    saved, result, bg >>

\* lines 32-33: the user must be registered
AddCheckUser(p) ==
    /\ InAdd(p) /\ pc[p] = "checkUser"
    /\ \/ /\ Logged(p, "checkUserExists", item[p].user_id, "true")
          /\ pc' = [pc EXCEPT ![p] = "findOne"]
          /\ UNCHANGED outcome
       \/ /\ Logged(p, "checkUserExists", item[p].user_id, "false")
          /\ AddRejects(p, Err("ValidationException", MsgNoUser))
       \/ \E e \in CollabErrors :
            /\ LoggedThrow(p, "checkUserExists", item[p].user_id, e)
            /\ AddRejects(p, e)
    /\ UNCHANGED << store, calls, revoked, firstId, op, input, initSync, userId, event, item,
                    saved, result, bg >>

\* lines 34-35: the record already saved for the user, if any
AddFindOne(p) ==
    /\ InAdd(p) /\ pc[p] = "findOne"
    /\ \/ /\ Logged(p, "findOne", item[p].user_id, "ok")
          /\ saved' = [saved EXCEPT ![p] = FindOne(store, item[p].user_id)]
          /\ pc' = [pc EXCEPT ![p] = "write"]
          /\ UNCHANGED outcome
       \/ \E e \in CollabErrors :
            /\ LoggedThrow(p, "findOne", item[p].user_id, e)
            /\ AddRejects(p, e)
            /\ UNCHANGED saved
    /\ UNCHANGED << store, calls, revoked, firstId, op, input, initSync, userId, event, item,
                    result, bg >>

\* the user's first stored identity
Remember(rec) ==
    firstId' = [firstId EXCEPT ![rec.user_id] = IF @ = NoId THEN rec.id ELSE @]

\* mutant of AddWrite: the item is created whether or not one is saved
AddWriteCreates(p) ==
    /\ InAdd(p) /\ pc[p] = "write"
    /\ \/ /\ Logged(p, "create", item[p], "ok")
          /\ store' = Create(store, item[p])
          /\ Remember(Created(store, item[p]))
          /\ AddResolves(p, Created(store, item[p]))
       \/ \E e \in CollabErrors :
            /\ LoggedThrow(p, "create", item[p], e)
            /\ AddRejects(p, e)
            /\ UNCHANGED << store, firstId, result >>
    /\ UNCHANGED << calls, revoked, op, input, initSync, userId, event, item, saved, bg >>

\* lines 36-42: update under the saved identity, or create
AddWrite(p) ==
    /\ InAdd(p) /\ pc[p] = "write"
    /\ IF saved[p] # NoItem
       THEN LET newItem == [item[p] EXCEPT !.id = saved[p].id] IN
            /\ item' = [item EXCEPT ![p] = newItem]
            /\ \/ /\ Logged(p, "update", newItem, "ok")
                  /\ store' = Update(store, newItem)
                  /\ Remember(newItem)
                  /\ AddResolves(p, newItem)
               \/ \E e \in CollabErrors :
                    /\ LoggedThrow(p, "update", newItem, e)
                    /\ AddRejects(p, e)
                    /\ UNCHANGED << store, firstId, result >>
       ELSE /\ UNCHANGED item
            /\ \/ /\ Logged(p, "create", item[p], "ok")
                  /\ store' = Create(store, item[p])
                  /\ Remember(Created(store, item[p]))
                  /\ AddResolves(p, Created(store, item[p]))
               \/ \E e \in CollabErrors :
                    /\ LoggedThrow(p, "create", item[p], e)
                    /\ AddRejects(p, e)
                    /\ UNCHANGED << store, firstId, result >>
    /\ UNCHANGED << calls, revoked, op, input, initSync, userId, event, saved, bg >>

\* ----------------------------------------------------- addFitbitAuthData
\* mutant of AfdDispatch: initSync is tested for truth, and "false" is true
AfdDispatchTruthy(p) ==
    /\ op[p] = "addFitbitAuthData" /\ pc[p] = "dispatch"
    /\ IF initSync[p] # NoVal
       THEN /\ Logged(p, "syncFitbitUserData",
                      << result[p].user_id, result[p].fitbit.last_sync, InitSyncAttempts >>,
                      "pending")
            /\ bg' = [bg EXCEPT ![p] = "running"]
       ELSE IF result[p].fitbit.last_sync # NoVal
       THEN /\ Logged(p, "publishLastSync",
                      << result[p].user_id, result[p].fitbit.last_sync >>, "ok")
            /\ UNCHANGED bg
       ELSE UNCHANGED << log, bg >>
    /\ outcome' = [outcome EXCEPT ![p] = Resolved(result[p])]
    /\ pc' = [pc EXCEPT ![p] = "done"]
    /\ UNCHANGED << store, calls, revoked, firstId, op, input, initSync, userId, event, item,
                    saved, result >>

\* mutant of AfdDispatch: the sync is awaited, and its failure is the caller's
AfdDispatchAwaits(p) ==
    /\ op[p] = "addFitbitAuthData" /\ pc[p] = "dispatch"
    /\ IF initSync[p] # "false"
       THEN \/ /\ Logged(p, "syncFitbitUserData",
                         << result[p].user_id, result[p].fitbit.last_sync, InitSyncAttempts >>,
                         "ok")
               /\ bg' = [bg EXCEPT ![p] = "resolved"]
               /\ outcome' = [outcome EXCEPT ![p] = Resolved(result[p])]
            \/ \E e \in CollabErrors :
                 /\ Logged(p, "syncFitbitUserData",
                           << result[p].user_id, result[p].fitbit.last_sync, InitSyncAttempts >>,
                           "throws")
                 /\ bg' = [bg EXCEPT ![p] = "rejected"]
                 /\ outcome' = [outcome EXCEPT ![p] = Rejected(e)]
       ELSE /\ outcome' = [outcome EXCEPT ![p] = Resolved(result[p])]
            /\ IF result[p].fitbit.last_sync # NoVal
               THEN /\ Logged(p, "publishLastSync",
                              << result[p].user_id, result[p].fitbit.last_sync >>, "ok")
                    /\ UNCHANGED bg
               ELSE UNCHANGED << log, bg >>
    /\ pc' = [pc EXCEPT ![p] = "done"]
    /\ UNCHANGED << store, calls, revoked, firstId, op, input, initSync, userId, event, item,
                    saved, result >>

\* lines 72-79, run when the inner add has resolved: the sync is started
\* and not awaited, or the last sync is published, and result is returned
\* mutant of AfdDispatch: the else of line 76 is lost, the last sync is
\* published whenever there is one
AfdDispatchBoth(p) ==
    /\ op[p] = "addFitbitAuthData" /\ pc[p] = "dispatch"
    /\ log' = [log EXCEPT ![p] =
          @ \o (IF initSync[p] # "false"
                THEN << LogEntry("syncFitbitUserData",
                                 << result[p].user_id, result[p].fitbit.last_sync,
                                    InitSyncAttempts >>, "pending") >>
                ELSE <<>>)
            \o (IF result[p].fitbit.last_sync # NoVal
                THEN << LogEntry("publishLastSync",
                                 << result[p].user_id, result[p].fitbit.last_sync >>,
                                 "ok") >>
                ELSE <<>>)]
    /\ bg' = [bg EXCEPT ![p] = IF initSync[p] # "false" THEN "running" ELSE @]
    /\ outcome' = [outcome EXCEPT ![p] = Resolved(result[p])]
    /\ pc' = [pc EXCEPT ![p] = "done"]
    /\ UNCHANGED << store, calls, revoked, firstId, op, input, initSync, userId, event, item,
                    saved, result >>

AfdDispatch(p) ==
    /\ op[p] = "addFitbitAuthData" /\ pc[p] = "dispatch"
    /\ IF initSync[p] # "false"
       THEN /\ Logged(p, "syncFitbitUserData",
                      << result[p].user_id, result[p].fitbit.last_sync, InitSyncAttempts >>,
                      "pending")
            /\ bg' = [bg EXCEPT ![p] = "running"]
       ELSE IF result[p].fitbit.last_sync # NoVal
       THEN /\ Logged(p, "publishLastSync",
                      << result[p].user_id, result[p].fitbit.last_sync >>, "ok")
            /\ UNCHANGED bg
       ELSE UNCHANGED << log, bg >>
    /\ outcome' = [outcome EXCEPT ![p] = Resolved(result[p])]
    /\ pc' = [pc EXCEPT ![p] = "done"]
    /\ UNCHANGED << store, calls, revoked, firstId, op, input, initSync, userId, event, item,
                    saved, result >>

\* lines 74-75: the sync promise settles, whenever that is; its rejection
\* is passed to a promise nobody holds
BgSyncSettles(p) ==
    /\ op[p] = "addFitbitAuthData"
    /\ bg[p] = "running"
    /\ \E how \in {"resolved", "rejected"} : bg' = [bg EXCEPT ![p] = how]
    /\ UNCHANGED << store, calls, revoked, firstId, pc, op, input, initSync, userId, event,
                    item, saved, result, outcome, log >>

\* ------------------------------------------------ revokeFitbitAccessToken
\* line 87: ObjectIdValidator.validate(userId)
RevokeValidate(p) ==
    /\ op[p] = "revokeFitbitAccessToken" /\ pc[p] = "revValidate"
    /\ IF ValidObjectId(userId[p])
       THEN /\ pc' = [pc EXCEPT ![p] = "revFindOne"]
            /\ UNCHANGED outcome
       ELSE /\ pc' = [pc EXCEPT ![p] = "done"]
            /\ outcome' = [outcome EXCEPT ![p] =
                  Rejected(Err("ValidationException", MsgInvalidId))]
    /\ UNCHANGED << store, calls, revoked, firstId, op, input, initSync, userId, event, item,
                    saved, result, log, bg >>

\* lines 88-89, and 90-91 when there is no record
RevokeFindOne(p) ==
    /\ op[p] = "revokeFitbitAccessToken" /\ pc[p] = "revFindOne"
    /\ \/ /\ Logged(p, "findOne", userId[p], "ok")
          /\ saved' = [saved EXCEPT ![p] = FindOne(store, userId[p])]
          /\ IF FindOne(store, userId[p]) # NoItem
             THEN /\ pc' = [pc EXCEPT ![p] = "revRevoke"]
                  /\ UNCHANGED outcome
             ELSE /\ pc' = [pc EXCEPT ![p] = "done"]
                  /\ outcome' = [outcome EXCEPT ![p] = ResolvedBool(FALSE)]
       \/ \E e \in CollabErrors :
            /\ LoggedThrow(p, "findOne", userId[p], e)
            /\ pc' = [pc EXCEPT ![p] = "done"]
            /\ outcome' = [outcome EXCEPT ![p] = Rejected(e)]
            /\ UNCHANGED saved
    /\ UNCHANGED << store, calls, revoked, firstId, op, input, initSync, userId, event, item,
                    result, bg >>

\* mutant of RevokeToken: a failed revocation is passed over
RevokeTokenSwallows(p) ==
    /\ op[p] = "revokeFitbitAccessToken" /\ pc[p] = "revRevoke"
    /\ pc' = [pc EXCEPT ![p] = "done"]
    /\ \/ /\ Logged(p, "revokeToken", saved[p].fitbit.access_token, "ok")
          /\ revoked' = revoked \cup {saved[p].fitbit.access_token}
       \/ /\ Logged(p, "revokeToken", saved[p].fitbit.access_token, "throws")
          /\ UNCHANGED revoked
    /\ outcome' = [outcome EXCEPT ![p] = ResolvedBool(saved[p] # NoItem)]
    /\ UNCHANGED << store, calls, firstId, op, input, initSync, userId, event, item,
                    saved, result, bg >>

\* lines 90-91 when there is a record: await revokeToken, then !!authData
\* mutant of RevokeToken: after the revocation the stored record is marked
\* as holding an invalid token
RevokeTokenInvalidates(p) ==
    /\ op[p] = "revokeFitbitAccessToken" /\ pc[p] = "revRevoke"
    /\ pc' = [pc EXCEPT ![p] = "done"]
    /\ IF saved[p].fitbit = NoFitbit
       THEN /\ outcome' = [outcome EXCEPT ![p] = Rejected(Err("TypeError", MsgNoFitbit))]
            /\ UNCHANGED << log, revoked, store >>
       ELSE \/ /\ Logged(p, "revokeToken", saved[p].fitbit.access_token, "ok")
               /\ revoked' = revoked \cup {saved[p].fitbit.access_token}
               /\ store' = [i \in DOMAIN store |->
                               IF store[i].id = saved[p].id
                               THEN [store[i] EXCEPT !.fitbit.status = "invalid_token"]
                               ELSE store[i]]
               /\ outcome' = [outcome EXCEPT ![p] = ResolvedBool(saved[p] # NoItem)]
            \/ \E e \in CollabErrors :
                 /\ LoggedThrow(p, "revokeToken", saved[p].fitbit.access_token, e)
                 /\ outcome' = [outcome EXCEPT ![p] = Rejected(e)]
                 /\ UNCHANGED << revoked, store >>
    /\ UNCHANGED << calls, firstId, op, input, initSync, userId, event, item,
                    saved, result, bg >>

RevokeToken(p) ==
    /\ op[p] = "revokeFitbitAccessToken" /\ pc[p] = "revRevoke"
    /\ pc' = [pc EXCEPT ![p] = "done"]
    /\ IF saved[p].fitbit = NoFitbit
       THEN \* authData.fitbit is undefined: reading its access_token throws
            /\ outcome' = [outcome EXCEPT ![p] = Rejected(Err("TypeError", MsgNoFitbit))]
            /\ UNCHANGED << log, revoked >>
       ELSE \/ /\ Logged(p, "revokeToken", saved[p].fitbit.access_token, "ok")
               /\ revoked' = revoked \cup {saved[p].fitbit.access_token}
               /\ outcome' = [outcome EXCEPT ![p] = ResolvedBool(saved[p] # NoItem)]
            \/ \E e \in CollabErrors :
                 /\ LoggedThrow(p, "revokeToken", saved[p].fitbit.access_token, e)
                 /\ outcome' = [outcome EXCEPT ![p] = Rejected(e)]
                 /\ UNCHANGED revoked
    /\ UNCHANGED << store, calls, firstId, op, input, initSync, userId, event, item,
                    saved, result, bg >>

\* ----------------------------------------------------- syncFitbitUserData
CallSync(p) ==
    \E uid \in UserIds \cup {BadId} :
        Invoke(p, "syncFitbitUserData", NoItem, NoVal, uid, NoEvent, "syncFindOne")

\* lines 99-104: the record of the user, which must have its fitbit data
SyncFindOne(p) ==
    /\ op[p] = "syncFitbitUserData" /\ pc[p] = "syncFindOne"
    /\ \/ /\ Logged(p, "findOne", userId[p], "ok")
          /\ saved' = [saved EXCEPT ![p] = FindOne(store, userId[p])]
          /\ IF FindOne(store, userId[p]) = NoItem
                \/ FindOne(store, userId[p]).fitbit = NoFitbit
             THEN /\ pc' = [pc EXCEPT ![p] = "done"]
                  /\ outcome' = [outcome EXCEPT ![p] =
                        Rejected(Err("ValidationException", MsgNoAuthData))]
             ELSE /\ pc' = [pc EXCEPT ![p] = "syncCall"]
                  /\ UNCHANGED outcome
       \/ \E e \in CollabErrors :
            /\ LoggedThrow(p, "findOne", userId[p], e)
            /\ pc' = [pc EXCEPT ![p] = "done"]
            /\ outcome' = [outcome EXCEPT ![p] = Rejected(e)]
            /\ UNCHANGED saved
    /\ UNCHANGED << store, calls, revoked, firstId, op, input, initSync, userId, event,
                    item, result, bg >>

\* the arguments of the sync of line 105
SyncArgs(authData, uid) ==
    << authData.fitbit, authData.fitbit.last_sync, RequestSyncAttempts, uid >>

\* mutant of SyncCall: a failed sync is caught and the caller gets a result
SyncCallSwallows(p) ==
    /\ op[p] = "syncFitbitUserData" /\ pc[p] = "syncCall"
    /\ pc' = [pc EXCEPT ![p] = "done"]
    /\ outcome' = [outcome EXCEPT ![p] =
          ResolvedSync(DataSync(userId[p], saved[p].fitbit.last_sync))]
    /\ \/ Logged(p, "syncFitbitUserData", SyncArgs(saved[p], userId[p]), "ok")
       \/ \E e \in CollabErrors :
            LoggedThrow(p, "syncFitbitUserData", SyncArgs(saved[p], userId[p]), e)
    /\ UNCHANGED << store, calls, revoked, firstId, op, input, initSync, userId, event,
                    item, saved, result, bg >>

\* line 105: the promise of the sync is the promise the caller gets
SyncCall(p) ==
    /\ op[p] = "syncFitbitUserData" /\ pc[p] = "syncCall"
    /\ pc' = [pc EXCEPT ![p] = "done"]
    /\ \/ /\ Logged(p, "syncFitbitUserData", SyncArgs(saved[p], userId[p]), "ok")
          /\ outcome' = [outcome EXCEPT ![p] =
                ResolvedSync(DataSync(userId[p], saved[p].fitbit.last_sync))]
       \/ \E e \in CollabErrors :
            /\ LoggedThrow(p, "syncFitbitUserData", SyncArgs(saved[p], userId[p]), e)
            /\ outcome' = [outcome EXCEPT ![p] = Rejected(e)]
    /\ UNCHANGED << store, calls, revoked, firstId, op, input, initSync, userId, event,
                    item, saved, result, bg >>

\* ------------------------------------------------- syncLastFitbitUserData
FitbitUserIds == {"F0", "F1", "F9"}
Events == { Event(t, "2019-10-02") : t \in {"body", "sleep"} }

CallRelay(p) ==
    \E fid \in FitbitUserIds, ev \in Events :
        Invoke(p, "syncLastFitbitUserData", NoItem, NoVal, fid, ev, "relayFindOne")

\* the arguments of the sync of line 116
RelayArgs(authData, ev) ==
    << authData.fitbit, authData.user_id, ev.type, ev.date, RelaySyncAttempts >>

\* lines 113-120: the record of the Fitbit user; if there is one its sync
\* is started and not awaited; the promise resolves
RelayFindOne(p) ==
    /\ op[p] = "syncLastFitbitUserData" /\ pc[p] = "relayFindOne"
    /\ pc' = [pc EXCEPT ![p] = "done"]
    /\ \/ /\ saved' = [saved EXCEPT ![p] = FindOneByFitbitId(store, userId[p])]
          /\ outcome' = [outcome EXCEPT ![p] = ResolvedVoid]
          /\ IF FindOneByFitbitId(store, userId[p]) # NoItem
             THEN /\ log' = [log EXCEPT ![p] =
                        @ \o << LogEntry("findOne", userId[p], "ok"),
                                LogEntry("syncLastFitbitUserData",
                                         RelayArgs(FindOneByFitbitId(store, userId[p]),
                                                   event[p]),
                                         "pending") >>]
                  /\ bg' = [bg EXCEPT ![p] = "running"]
             ELSE /\ Logged(p, "findOne", userId[p], "ok")
                  /\ UNCHANGED bg
       \/ \E e \in CollabErrors :
            /\ LoggedThrow(p, "findOne", userId[p], e)
            /\ outcome' = [outcome EXCEPT ![p] = Rejected(e)]
            /\ UNCHANGED << saved, bg >>
    /\ UNCHANGED << store, calls, revoked, firstId, op, input, initSync, userId, event,
                    item, result >>

\* mutant of RelaySyncSettles: the rejection of the sync reaches the caller
RelaySyncSettlesReports(p) ==
    /\ op[p] = "syncLastFitbitUserData"
    /\ bg[p] = "running"
    /\ \/ /\ bg' = [bg EXCEPT ![p] = "resolved"]
          /\ UNCHANGED << log, outcome >>
       \/ \E e \in CollabErrors :
            /\ bg' = [bg EXCEPT ![p] = "rejected"]
            /\ outcome' = [outcome EXCEPT ![p] = Rejected(e)]
            /\ UNCHANGED log
    /\ UNCHANGED << store, calls, revoked, firstId, pc, op, input, initSync, userId,
                    event, item, saved, result >>

\* lines 117-118: the sync promise settles; its rejection is logged
RelaySyncSettles(p) ==
    /\ op[p] = "syncLastFitbitUserData"
    /\ bg[p] = "running"
    /\ \/ /\ bg' = [bg EXCEPT ![p] = "resolved"]
          /\ UNCHANGED log
       \/ \E e \in CollabErrors :
            /\ bg' = [bg EXCEPT ![p] = "rejected"]
            /\ Logged(p, "logger.error", e.message, "ok")
    /\ UNCHANGED << store, calls, revoked, firstId, pc, op, input, initSync, userId,
                    event, item, saved, result, outcome >>

\* ---------------------------------------------- getFitbitAuthDataByUserId
CallGet(p) ==
    \E uid \in UserIds \cup {BadId} :
        Invoke(p, "getFitbitAuthDataByUserId", NoItem, NoVal, uid, NoEvent, "getValidate")

\* line 128: ObjectIdValidator.validate(userId)
GetValidate(p) ==
    /\ op[p] = "getFitbitAuthDataByUserId" /\ pc[p] = "getValidate"
    /\ IF ValidObjectId(userId[p])
       THEN /\ pc' = [pc EXCEPT ![p] = "getFind"]
            /\ UNCHANGED outcome
       ELSE /\ pc' = [pc EXCEPT ![p] = "done"]
            /\ outcome' = [outcome EXCEPT ![p] =
                  Rejected(Err("ValidationException", MsgInvalidId))]
    /\ UNCHANGED << store, calls, revoked, firstId, op, input, initSync, userId, event,
                    item, saved, result, log, bg >>

\* mutant of FitbitOf: a new FitbitAuthData whatever the record holds
FitbitOfNothing(rec) == NoFitbit

\* lines 130-131: the fitbit data of the record, or a new FitbitAuthData
FitbitOf(rec) == IF rec # NoItem /\ rec.fitbit # NoFitbit THEN rec.fitbit ELSE NoFitbit

\* lines 129-131
GetFind(p) ==
    /\ op[p] = "getFitbitAuthDataByUserId" /\ pc[p] = "getFind"
    /\ pc' = [pc EXCEPT ![p] = "done"]
    /\ \/ /\ Logged(p, "getUserAuthDataByUserId", userId[p], "ok")
          /\ saved' = [saved EXCEPT ![p] = FindOne(store, userId[p])]
          /\ outcome' = [outcome EXCEPT ![p] =
                ResolvedFitbit(FitbitOf(FindOne(store, userId[p])))]
       \/ \E e \in CollabErrors :
            /\ LoggedThrow(p, "getUserAuthDataByUserId", userId[p], e)
            /\ outcome' = [outcome EXCEPT ![p] = Rejected(e)]
            /\ UNCHANGED saved
    /\ UNCHANGED << store, calls, revoked, firstId, op, input, initSync, userId, event,
                    item, result, bg >>

\* -------------------------------------------------------- specifications
\* the slot of the invocations that run one after the other
SeqProcs == {1}

\* a step of an invocation in flight
Step(p) ==
    \/ AddValidate(p)
    \/ AddIntrospect(p)
    \/ AddScopeCheck(p)
    \/ \E i \in 1..Len(SubStages) : AddSubscribe(p, SubStages[i])
    \/ AddCheckUser(p)
    \/ AddFindOne(p)
    \/ AddWrite(p)
    \/ AfdDispatch(p)
    \/ BgSyncSettles(p)
    \/ RevokeValidate(p)
    \/ RevokeFindOne(p)
    \/ RevokeToken(p)
    \/ SyncFindOne(p)
    \/ SyncCall(p)
    \/ RelayFindOne(p)
    \/ RelaySyncSettles(p)
    \/ GetValidate(p)
    \/ GetFind(p)
    \/ Return(p)

\* invocations one after the other
Next ==
    \E p \in SeqProcs :
        \/ CallAdd(p, PlainItems)
        \/ CallAddFitbitAuthData(p, AddItems)
        \/ CallRevoke(p)
        \/ CallSync(p)
        \/ CallRelay(p)
        \/ CallGet(p)
        \/ Step(p)

Spec == Init /\ [][Next]_vars

\* invocations one after the other, on a store that already holds the
\* record of a user linked earlier and a record without fitbit data
LinkedBefore ==
    Created(<<>>, SetValid(ManageFitbitAuthData(
                      InputItem("u1", "tok-full", <<RPRO>>, "2019-10-01"),
                      TokenPayload("tok-full"))))
WithoutFitbit == Created(<<LinkedBefore>>, UserAuthData(NoId, "u2", NoFitbit))

InitStored ==
    /\ store = << LinkedBefore, WithoutFitbit >>
    /\ calls = 0
    /\ firstId = [u \in UserIds |-> FindOne(store, u).id]
    /\ revoked = {}
    /\ pc = [p \in Procs |-> "idle"]
    /\ op = [p \in Procs |-> NoVal]
    /\ input = [p \in Procs |-> NoItem]
    /\ initSync = [p \in Procs |-> NoVal]
    /\ userId = [p \in Procs |-> NoVal]
    /\ event = [p \in Procs |-> NoEvent]
    /\ item = [p \in Procs |-> NoItem]
    /\ saved = [p \in Procs |-> NoItem]
    /\ result = [p \in Procs |-> NoItem]
    /\ outcome = [p \in Procs |-> NoOutcome]
    /\ log = [p \in Procs |-> <<>>]
    /\ bg = [p \in Procs |-> "none"]

SpecStored == InitStored /\ [][Next]_vars

\* invocations in flight together
NextConc ==
    \E p \in Procs :
        \/ CallAdd(p, ConcItems)
        \/ CallAddFitbitAuthData(p, ConcItems)
        \/ CallRevoke(p)
        \/ CallSync(p)
        \/ CallRelay(p)
        \/ CallGet(p)
        \/ Step(p)

SpecConc == Init /\ [][NextConc]_vars

\* ---------------------------------------------------------------- claims
\* what the log of an invocation holds
CallsOf(p, names) == SelectSeq(log[p], LAMBDA e : e.call \in names)
Count(p, names) == Len(CallsOf(p, names))
ArgsOf(p, names) == [i \in 1..Count(p, names) |-> CallsOf(p, names)[i].arg]
Threw(p) == \E i \in 1..Len(log[p]) : log[p][i].reply = "throws"
Replied(p, call, reply) ==
    \E i \in 1..Len(log[p]) : log[p][i].call = call /\ log[p][i].reply = reply
StoreCalls == {"findOne", "create", "update"}
WriteCalls == {"create", "update"}

\* the introspection of p succeeded: the payload is merged into item[p]
Introspected(p) == InAdd(p) /\ Replied(p, "getTokenPayload", "ok")
\* the recognized scope words the merged scope string of p grants
Granted(p) == { w \in {RWEI, RACT, RSLE} : Includes(Split(item[p].fitbit.scope), w) }
\* one subscription per granted word, in the order body, activities, sleep
SubsFor(S) ==
    (IF RWEI \in S THEN << <<"body", "BODY">> >> ELSE <<>>)
    \o (IF RACT \in S THEN << <<"activities", "ACTIVITIES">> >> ELSE <<>>)
    \o (IF RSLE \in S THEN << <<"sleep", "SLEEP">> >> ELSE <<>>)

\* the inner add of p has resolved, and to what
AddSucceeded(p) ==
    \/ op[p] = "add" /\ pc[p] = "done" /\ outcome[p].status = "resolved"
    \/ op[p] = "addFitbitAuthData" /\ pc[p] \in {"dispatch", "done"} /\ result[p] # NoItem
Linked(p) == IF op[p] = "add" THEN outcome[p].value ELSE result[p]
AddFinished(p) ==
    \/ AddSucceeded(p)
    \/ InAdd(p) /\ pc[p] = "done" /\ outcome[p].status = "rejected"

\* C1: a valid item whose merged scope grants a non-empty set S of the
\* recognized words, with every collaborator succeeding, is linked: add
\* resolves to a record of status valid_token after exactly one subscription
\* per word of S (body/BODY, activities/ACTIVITIES, sleep/SLEEP, none other).
C1_SubscribesGranted ==
    \A p \in Procs :
        ( /\ AddFinished(p)
          /\ ValidItem(input[p])
          /\ Introspected(p)
          /\ Granted(p) # {}
          /\ ~Threw(p)
          /\ ~Replied(p, "checkUserExists", "false") )
        => /\ AddSucceeded(p)
           /\ Linked(p).fitbit.status = "valid_token"
           /\ ArgsOf(p, {"subscribeUserEvent"}) = SubsFor(Granted(p))

\* C2: when the merged scope string grants none of the three recognized
\* words, add rejects with the scope ValidationException and has made no
\* subscription call and no create or update.
C2_NoScopeRejected ==
    \A p \in Procs :
        (Introspected(p) /\ Granted(p) = {})
        => /\ pc[p] \in {"scope", "done"}
           /\ pc[p] = "done" => outcome[p] = Rejected(Err("ValidationException", MsgScope))
           /\ Count(p, {"subscribeUserEvent"}) = 0
           /\ Count(p, WriteCalls) = 0

C2_Witness ==
    \E p \in Procs :
        /\ Introspected(p) /\ Granted(p) = {} /\ pc[p] = "done"
        /\ outcome[p].err.message = MsgScope

\* C3: with the invocations running one after the other, every successful
\* add leaves exactly one stored record for its user; the record has the
\* identity under which the user was first stored and the fields of this
\* call (its access token among them).
C3_SequentialUpsert ==
    \A p \in Procs :
        AddSucceeded(p) =>
            LET u == item[p].user_id IN
            /\ Cardinality(Matching(store, u)) = 1
            /\ FindOne(store, u).id = firstId[u]
            /\ FindOne(store, u) = [item[p] EXCEPT !.id = firstId[u]]
            /\ FindOne(store, u).fitbit.access_token = input[p].fitbit.access_token
            /\ Linked(p) = FindOne(store, u)

\* a second link of the user, carrying another access token than the stored one
C3_Witness ==
    \E p \in Procs :
        /\ AddSucceeded(p)
        /\ saved[p] # NoItem
        /\ saved[p].fitbit.access_token # input[p].fitbit.access_token
        /\ Len(store) = 1

\* C4: the store never holds two records of one user, whatever the
\* interleaving of the invocations.
C4_OneRecordPerUser ==
    \A u \in UserIds : Cardinality(Matching(store, u)) <= 1

\* the directory told invocation p that its user is not registered
DirectorySaidNo(p) == InAdd(p) /\ Replied(p, "checkUserExists", "false")
\* the step taken is a step of invocation p
StepOf(p) == pc'[p] # pc[p] \/ log'[p] # log[p] \/ outcome'[p] # outcome[p]

\* C5: when the directory reports that the user does not exist, add rejects
\* with the ValidationException of line 33, has made no findOne, create or
\* update call, and no step of the invocation changes the stored records.
C5_UnknownUserNothingStored ==
    /\ [](\A p \in Procs :
            DirectorySaidNo(p)
            => /\ pc[p] = "done"
               /\ outcome[p] = Rejected(Err("ValidationException", MsgNoUser))
               /\ Count(p, StoreCalls) = 0)
    /\ [][\A p \in Procs :
            (StepOf(p) /\ \E i \in 1..Len(log'[p]) :
                            /\ log'[p][i].call = "checkUserExists"
                            /\ log'[p][i].reply = "false")
            => store' = store]_vars

C5_Witness ==
    \E p \in Procs :
        /\ DirectorySaidNo(p) /\ pc[p] = "done"
        /\ outcome[p].err.name = "ValidationException"
        /\ store # <<>>

C7_SubscriptionFailureAborts ==
    \A p \in Procs :
        (InAdd(p) /\ Replied(p, "subscribeUserEvent", "throws"))
        => /\ log[p][Len(log[p])].call = "subscribeUserEvent"
           /\ log[p][Len(log[p])].reply = "throws"
           /\ \A i \in 1..(Len(log[p]) - 1) : log[p][i].reply = "ok"
           /\ Count(p, {"checkUserExists"}) = 0
           /\ Count(p, StoreCalls) = 0
           /\ pc[p] = "done"
           /\ outcome[p].status = "rejected"
           /\ outcome[p].err \in CollabErrors \cup {Err("EventBusException", MsgBus)}

\* the second subscription failed after the first succeeded
C7_Witness ==
    \E p \in Procs :
        /\ InAdd(p) /\ pc[p] = "done"
        /\ Count(p, {"subscribeUserEvent"}) = 2
        /\ Replied(p, "subscribeUserEvent", "throws")
        /\ outcome[p].status = "rejected"

\* C8: revokeFitbitAccessToken with a well-formed id: with no record of the
\* id it resolves to false without a revokeToken call; with a record it
\* makes exactly one revokeToken call, with the record's access token,
\* resolves to true only if that call succeeded, and rejects with the
\* error of the call if it failed.
C8_Revoke ==
    \A p \in Procs :
        ( /\ op[p] = "revokeFitbitAccessToken" /\ pc[p] = "done"
          /\ ValidObjectId(userId[p])
          /\ Replied(p, "findOne", "ok") )
        => IF Matching(store, userId[p]) = {}
           THEN /\ outcome[p] = ResolvedBool(FALSE)
                /\ Count(p, {"revokeToken"}) = 0
           ELSE /\ ArgsOf(p, {"revokeToken"})
                     = << FindOne(store, userId[p]).fitbit.access_token >>
                /\ Replied(p, "revokeToken", "ok") => outcome[p] = ResolvedBool(TRUE)
                /\ Replied(p, "revokeToken", "throws")
                     => outcome[p].status = "rejected" /\ outcome[p].err \in CollabErrors

C8_Witness ==
    \E p \in Procs :
        /\ op[p] = "revokeFitbitAccessToken" /\ pc[p] = "done"
        /\ Replied(p, "revokeToken", "ok")
        /\ outcome[p].flag

\* C9: addFitbitAuthData with initSync "false", once linked: if the result
\* has a last_sync it calls publishLastSync exactly once, with the result's
\* user id and last_sync, and never syncFitbitUserData; if the result has no
\* last_sync it calls neither.
C9_InitSyncFalse ==
    \A p \in Procs :
        ( /\ op[p] = "addFitbitAuthData" /\ pc[p] = "done"
          /\ initSync[p] = "false" /\ result[p] # NoItem )
        => /\ Count(p, {"syncFitbitUserData"}) = 0
           /\ bg[p] = "none"
           /\ ArgsOf(p, {"publishLastSync"})
                = IF result[p].fitbit.last_sync # NoVal
                  THEN << << result[p].user_id, result[p].fitbit.last_sync >> >>
                  ELSE <<>>

C9_Witness ==
    \E p \in Procs :
        /\ op[p] = "addFitbitAuthData" /\ pc[p] = "done" /\ initSync[p] = "false"
        /\ result[p].fitbit.last_sync # NoVal
        /\ Count(p, {"publishLastSync"}) = 1

\* C10: once the inner add of addFitbitAuthData has resolved, the caller
\* gets the linked record: while the sync is in flight the caller already
\* has it, and it stays the caller's outcome however the sync settles.
C10_SyncNeverFailsCaller ==
    \A p \in Procs :
        op[p] = "addFitbitAuthData"
        => /\ (pc[p] = "done" /\ result[p] # NoItem) => outcome[p] = Resolved(result[p])
           /\ bg[p] # "none" => (pc[p] = "done" /\ outcome[p] = Resolved(result[p]))

\* the sync failed after the caller got the record
C10_Witness ==
    \E p \in Procs :
        /\ op[p] = "addFitbitAuthData" /\ pc[p] = "done"
        /\ bg[p] = "rejected"
        /\ outcome[p].status = "resolved"

\* the error the call of that name threw, in the log of p
ThrownBy(p, call) ==
    { log[p][i].err : i \in { j \in 1..Len(log[p]) :
                                log[p][j].call = call /\ log[p][j].reply = "throws" } }
\* the stored record of the user has fitbit data
HasFitbit(uid) == Matching(store, uid) # {} /\ FindOne(store, uid).fitbit # NoFitbit

\* C11: syncFitbitUserData, once the store lookup answered: if the user has
\* no record, or a record without fitbit data, it rejects with the
\* missing-authentication-data error and makes no sync call; otherwise it
\* makes exactly one sync call, with the record's fitbit data, its last_sync,
\* max attempts 1 and the user id, and the caller gets what that call gives:
\* its result if it resolved, its error unchanged if it failed.
C11_RequestSync ==
    \A p \in Procs :
        ( /\ op[p] = "syncFitbitUserData" /\ pc[p] = "done"
          /\ Replied(p, "findOne", "ok") )
        => IF ~HasFitbit(userId[p])
           THEN /\ outcome[p] = Rejected(Err("ValidationException", MsgNoAuthData))
                /\ Count(p, {"syncFitbitUserData"}) = 0
           ELSE /\ ArgsOf(p, {"syncFitbitUserData"})
                     = << << FindOne(store, userId[p]).fitbit,
                             FindOne(store, userId[p]).fitbit.last_sync, 1, userId[p] >> >>
                /\ Replied(p, "syncFitbitUserData", "ok")
                     => outcome[p] = ResolvedSync(
                            DataSync(userId[p], FindOne(store, userId[p]).fitbit.last_sync))
                /\ \A e \in ThrownBy(p, "syncFitbitUserData") : outcome[p] = Rejected(e)

\* the sync of a linked user failed and the caller got its error
C11_Witness ==
    \E p \in Procs :
        /\ op[p] = "syncFitbitUserData" /\ pc[p] = "done"
        /\ HasFitbit(userId[p])
        /\ ThrownBy(p, "syncFitbitUserData") # {}
        /\ outcome[p].status = "rejected"

\* the sync of a user whose record has no fitbit data was refused
C11_RefusedWithoutFitbit ==
    \E p \in Procs :
        /\ op[p] = "syncFitbitUserData" /\ pc[p] = "done"
        /\ Matching(store, userId[p]) # {} /\ ~HasFitbit(userId[p])
        /\ outcome[p].status = "rejected"

\* C12: syncLastFitbitUserData, once the store lookup answered, resolves:
\* if no record has the Fitbit user id it makes no sync call; if one has, it
\* makes exactly one syncLastFitbitUserData call, with the record's fitbit
\* data and user id, the type and date of the event and max attempts 1, the
\* caller's promise is resolved while that sync is still pending, and it
\* stays resolved however the sync settles.
C12_RelayUpstreamSync ==
    \A p \in Procs :
        ( /\ op[p] = "syncLastFitbitUserData" /\ pc[p] = "done"
          /\ Replied(p, "findOne", "ok") )
        => /\ outcome[p] = ResolvedVoid
           /\ IF MatchingFitbit(store, userId[p]) = {}
              THEN Count(p, {"syncLastFitbitUserData"}) = 0 /\ bg[p] = "none"
              ELSE /\ ArgsOf(p, {"syncLastFitbitUserData"})
                        = << << FindOneByFitbitId(store, userId[p]).fitbit,
                                FindOneByFitbitId(store, userId[p]).user_id,
                                event[p].type, event[p].date, 1 >> >>
                   /\ bg[p] # "none"

\* the sync failed after the caller's promise resolved; the failure is logged
C12_Witness ==
    \E p \in Procs :
        /\ op[p] = "syncLastFitbitUserData" /\ pc[p] = "done"
        /\ bg[p] = "rejected"
        /\ Count(p, {"logger.error"}) = 1
        /\ outcome[p].status = "resolved"

\* the caller's promise is resolved while the sync is pending
C12_ResolvedWhilePending ==
    \E p \in Procs :
        /\ op[p] = "syncLastFitbitUserData" /\ pc[p] = "done"
        /\ bg[p] = "running"
        /\ outcome[p].status = "resolved"

\* an event of a Fitbit user nobody is linked to is dropped
C12_Dropped ==
    \E p \in Procs :
        /\ op[p] = "syncLastFitbitUserData" /\ pc[p] = "done"
        /\ Replied(p, "findOne", "ok")
        /\ MatchingFitbit(store, userId[p]) = {}
        /\ outcome[p].status = "resolved"

C13_Placeholder ==
    \E p \in Procs :
        /\ op[p] = "getFitbitAuthDataByUserId" /\ pc[p] = "done"
        /\ Matching(store, userId[p]) # {} /\ ~HasFitbit(userId[p])
        /\ outcome[p] = ResolvedFitbit(NoFitbit)

\* the calls add makes outside the subscription step
OtherAddCalls == {"getTokenPayload", "checkUserExists", "findOne", "create", "update"}
\* add was rejected with the message-bus exception
BusRejected(p) ==
    /\ InAdd(p) /\ pc[p] = "done"
    /\ outcome[p] = Rejected(Err("EventBusException", "Communication with the message bus cannot be performed."))

\* C14: an add that failed is rejected with the message-bus exception
\* exactly when a subscription call failed with a transport error; an error
\* thrown by any other call of add is rejected unchanged.
C14_BusOnlyFromSubscription ==
    \A p \in Procs :
        ( InAdd(p) /\ pc[p] = "done" /\ outcome[p].status = "rejected" )
        => /\ BusRejected(p)
                <=> Err("Error", "rpc timed out") \in ThrownBy(p, "subscribeUserEvent")
           /\ \A c \in OtherAddCalls : \A e \in ThrownBy(p, c) : outcome[p] = Rejected(e)

\* a transport error of the directory check came back as the message-bus exception
C14_DirectoryErrorReclassified ==
    \E p \in Procs :
        /\ BusRejected(p)
        /\ ThrownBy(p, "subscribeUserEvent") = {}
        /\ ThrownBy(p, "checkUserExists") # {}

\* the record went through lines 30 and 166
ValidBearer(rec) ==
    rec.fitbit.status = "valid_token" /\ rec.fitbit.token_type = "Bearer"

\* C15: every record add passes to create or update, and every record of a
\* store only the service wrote to, has status valid_token and token type
\* Bearer.
C15_WritesValidBearer ==
    /\ \A p \in Procs : \A i \in 1..Count(p, WriteCalls) :
          ValidBearer(ArgsOf(p, WriteCalls)[i])
    /\ \A i \in 1..Len(store) : ValidBearer(store[i])

\* a record was written, from an input without status and token type
C15_Witness ==
    \E p \in Procs :
        /\ InAdd(p) /\ Count(p, WriteCalls) = 1
        /\ input[p].fitbit.status = NoVal /\ input[p].fitbit.token_type = NoVal
        /\ Len(store) > 0

\* the calls of add on its collaborators, in the order they were made
AddCalls(p) ==
    CallsOf(p, {"getTokenPayload", "subscribeUserEvent", "checkUserExists",
                "findOne", "create", "update"})
\* the place of a call in the order of the claim
Rank(e) ==
    CASE e.call = "getTokenPayload" -> 1
      [] e.call = "subscribeUserEvent" /\ e.arg[1] = "body" -> 2
      [] e.call = "subscribeUserEvent" /\ e.arg[1] = "activities" -> 3
      [] e.call = "subscribeUserEvent" /\ e.arg[1] = "sleep" -> 4
      [] e.call = "checkUserExists" -> 5
      [] e.call = "findOne" -> 6
      [] OTHER -> 7
RanksOf(p) == { Rank(AddCalls(p)[i]) : i \in 1..Len(AddCalls(p)) }

\* C16: in every add the calls are made in the order introspection,
\* subscriptions (body, activities, sleep), directory check, store lookup,
\* create or update, each at most once; no call follows one that failed, so
\* a failed introspection is the only call; the directory check, the lookup
\* and the write each come only after the step before them; and an add that
\* succeeded made exactly one create or update.
C16_CallOrder ==
    \A p \in Procs :
        InAdd(p)
        => /\ \A i, j \in 1..Len(AddCalls(p)) :
                i < j => /\ Rank(AddCalls(p)[i]) < Rank(AddCalls(p)[j])
                         /\ AddCalls(p)[i].reply \in {"ok", "true"}
           /\ RanksOf(p) # {} => 1 \in RanksOf(p)
           /\ 6 \in RanksOf(p) => 5 \in RanksOf(p)
           /\ 7 \in RanksOf(p) => 6 \in RanksOf(p)
           /\ AddSucceeded(p) => Count(p, WriteCalls) = 1

\* an add that made all its calls: introspection, three subscriptions,
\* directory check, lookup and write
C16_Witness ==
    \E p \in Procs : AddSucceeded(p) /\ RanksOf(p) = 1..7

\* an add whose introspection failed
C16_IntrospectionFailed ==
    \E p \in Procs :
        /\ InAdd(p) /\ pc[p] = "done"
        /\ ThrownBy(p, "getTokenPayload") # {}
        /\ Len(log[p]) = 1

\* the payload of the token the caller of p passed
PayloadOf(p) == TokenPayload(input[p].fitbit.access_token)
\* the scope string the claim says the subscriptions go by
UsedScope(p) ==
    IF PayloadOf(p).scopes # <<>> THEN PayloadOf(p).scopes ELSE input[p].fitbit.scope
\* the scope word a subscription to the category needs
WordFor(category) ==
    CASE category = "body" -> "rwei"
      [] category = "activities" -> "ract"
      [] OTHER -> "rsle"
ScopeRefused(p) ==
    outcome[p] = Rejected(Err("ValidationException",
        "The token must have permission for at least one of the features that are synced by the API."))

\* C17: after a successful introspection the record's Fitbit user id, scope
\* and expires_in are the payload's where the payload has them and the
\* caller's where it has not; the subscriptions go by that scope: each one
\* made is for a word of it, and a refusal for scope means it lacks a word.
C17_IntrospectionMerge ==
    \A p \in Procs :
        Introspected(p)
        => /\ item[p].fitbit.user_id
                = IF PayloadOf(p).sub # NoVal THEN PayloadOf(p).sub
                  ELSE input[p].fitbit.user_id
           /\ item[p].fitbit.scope = UsedScope(p)
           /\ item[p].fitbit.expires_in
                = IF PayloadOf(p).exp # 0 THEN PayloadOf(p).exp
                  ELSE input[p].fitbit.expires_in
           /\ \A i \in 1..Count(p, {"subscribeUserEvent"}) :
                Includes(Split(UsedScope(p)),
                         WordFor(ArgsOf(p, {"subscribeUserEvent"})[i][1]))
           /\ ScopeRefused(p)
                => \E w \in {"rwei", "ract", "rsle"} : ~Includes(Split(UsedScope(p)), w)

\* subscriptions were made by the scopes of the payload, which the scope
\* the caller passed would not have allowed
C17_Witness ==
    \E p \in Procs :
        /\ Introspected(p)
        /\ PayloadOf(p).scopes # <<>>
        /\ ~Includes(Split(input[p].fitbit.scope), "rwei")
        /\ Count(p, {"subscribeUserEvent"}) > 0

\* a payload without scopes and expiry: the caller's values stay
C17_PartialPayload ==
    \E p \in Procs :
        /\ Introspected(p)
        /\ PayloadOf(p).sub # NoVal /\ PayloadOf(p).scopes = <<>> /\ PayloadOf(p).exp = 0
        /\ item[p].fitbit.user_id = PayloadOf(p).sub
        /\ item[p].fitbit.scope = input[p].fitbit.scope

\* initSync asks for a sync: it is anything but the word "false"
RequestsSync(p) == initSync[p] # "false"

\* C18: addFitbitAuthData, once its add resolved, calls syncFitbitUserData
\* exactly once, for the linked user and with max attempts 3, if and only
\* if initSync is not "false", and then does not call publishLastSync; it
\* never calls both; if its add was rejected it calls neither and rejects.
C18_SyncOrPublish ==
    \A p \in Procs :
        op[p] = "addFitbitAuthData"
        => /\ ~(Count(p, {"syncFitbitUserData"}) > 0 /\ Count(p, {"publishLastSync"}) > 0)
           /\ (pc[p] = "done" /\ AddSucceeded(p))
                => /\ ArgsOf(p, {"syncFitbitUserData"})
                        = IF RequestsSync(p)
                          THEN << << input[p].user_id, result[p].fitbit.last_sync, 3 >> >>
                          ELSE <<>>
                   /\ RequestsSync(p) => Count(p, {"publishLastSync"}) = 0
           /\ (pc[p] = "done" /\ ~AddSucceeded(p))
                => /\ Count(p, {"syncFitbitUserData", "publishLastSync"}) = 0
                   /\ outcome[p].status = "rejected"

\* a sync was started for a record that has a last_sync, which was not published
C18_Witness ==
    \E p \in Procs :
        /\ op[p] = "addFitbitAuthData" /\ pc[p] = "done" /\ AddSucceeded(p)
        /\ result[p].fitbit.last_sync # NoVal
        /\ Count(p, {"syncFitbitUserData"}) = 1
        /\ Count(p, {"publishLastSync"}) = 0

\* no initSync was given and a sync was started
C18_SyncWithoutInitSync ==
    \E p \in Procs :
        /\ op[p] = "addFitbitAuthData" /\ pc[p] = "done"
        /\ initSync[p] = NoVal
        /\ Count(p, {"syncFitbitUserData"}) = 1

\* the add of an addFitbitAuthData was rejected
C18_AddRejected ==
    \E p \in Procs :
        /\ op[p] = "addFitbitAuthData" /\ pc[p] = "done" /\ ~AddSucceeded(p)
        /\ Len(log[p]) > 0

\* the store after a step is the store before it unless an add wrote
OnlyAddWrites == store' # store => \E p \in Procs : InAdd(p) /\ pc[p] = "write"
\* revokeFitbitAccessToken of p resolved to true
Revoked(p) ==
    /\ op[p] = "revokeFitbitAccessToken" /\ pc[p] = "done"
    /\ outcome[p] = ResolvedBool(TRUE)
\* the record of the user of p still has a token that was revoked
HoldsRevoked(p) == HasFitbit(userId[p]) /\ FindOne(store, userId[p]).fitbit.access_token \in revoked

\* C19: only the write step of add changes the store, and no other method
\* calls create or update; so when a revocation has succeeded the record of
\* the user is still stored, with the revoked access token and the status
\* valid_token, and a syncFitbitUserData for a user whose stored token was
\* revoked still makes its one sync call, with that token.
C19_OnlyAddWrites ==
    /\ [][OnlyAddWrites]_vars
    /\ [](\A p \in Procs :
            /\ ~InAdd(p) => Count(p, WriteCalls) = 0
            /\ Revoked(p)
                 => /\ HoldsRevoked(p)
                    /\ ArgsOf(p, {"revokeToken"})
                         = << FindOne(store, userId[p]).fitbit.access_token >>
                    /\ FindOne(store, userId[p]).fitbit.status = "valid_token"
            /\ ( /\ op[p] = "syncFitbitUserData" /\ pc[p] = "done"
                 /\ Replied(p, "findOne", "ok") /\ HoldsRevoked(p) )
                 => /\ Count(p, {"syncFitbitUserData"}) = 1
                    /\ ArgsOf(p, {"syncFitbitUserData"})[1][1].access_token \in revoked)

\* a sync call was made with a token revoked by an earlier invocation
C19_Witness ==
    \E p \in Procs :
        /\ op[p] = "syncFitbitUserData" /\ pc[p] = "done"
        /\ HoldsRevoked(p)
        /\ Count(p, {"syncFitbitUserData"}) = 1

====
